---- MODULE Spec2Model ----
(***************************************************************************)
(* Model of the advices-api service (src/main.rs): an axum router with     *)
(* three routes over a shared Arc<RwLock<HashMap<i64, Advice>>>, wrapped   *)
(* in a 10 second tower timeout whose errors are mapped by handle_error.   *)
(*                                                                         *)
(* Each in-flight request occupies one slot of Req.  A handler is split at *)
(* the points where other tasks can interleave: the two awaits of          *)
(* advices_generate, and the acquisition of the std RwLock.  Everything    *)
(* between two such points runs inside one poll and is one action.         *)
(*                                                                         *)
(* A panic (unwrap on Err/None) unwinds the request's task: the connection *)
(* is dropped without a response and the slot ends in pc = "panicked".     *)
(* A slot with pc = "done" or "panicked" shows the outcome of the request  *)
(* that has just finished; the next step of the server frees it.           *)
(*                                                                         *)
(* live, inserted and stale are history variables: the ids created and not *)
(* deleted since, the in-flight creates that have inserted, and those of   *)
(* them whose id was inserted again or deleted afterwards.                 *)
(***************************************************************************)
EXTENDS Bags, FiniteSets, Integers, Sequences, TLC

\* ---------------------------------------------------------------- bounds
MaxReq == 2
MaxId == 2

Req == 1..MaxReq
Ids == 1..MaxId
Texts == {"a", "b"}

\* ------------------------------------------------------------ data model
\* struct Advice { id: i64, advice: String }
Advice == [id : Ids, advice : Texts]

NoAdvice == [id |-> 0, advice |-> ""]

\* Option<T> as a sequence of length at most one
None == <<>>

Some(v) == <<v>>

\* The records the provider sends: it repeats id 1 with a different text
Provided == {a \in Advice : a.id = 1 \/ a.advice = "a"}

\* The JSON object the provider may send: HashMap<String, Advice>
Keys == {"slip", "other"}

\* an entry under another key, when there is one, is this record
Decoy == [id |-> 1, advice |-> "b"]

Payloads ==
  {p \in UNION {[K -> Provided] : K \in SUBSET Keys} :
     "other" \in DOMAIN p => p["other"] = Decoy}

\* A response body either decodes to such a map or does not decode at all
Bodies == {[json |-> FALSE, map |-> <<>>]} \cup {[json |-> TRUE, map |-> p] : p \in Payloads}

\* Path segments a client may put after /advices/
Segments ==
  { <<"1">>, <<"2">>, <<"+", "1">>, <<"-", "1">>, <<"a">>, <<"1", "a">>, <<"-">> }

IdleReq ==
  [kind |-> "none", pc |-> "idle", arg |-> 0, rec |-> NoAdvice,
   status |-> 0, body |-> EmptyBag, up |-> "none"]

VARIABLES req, db, readers, writer, poisoned, live, inserted, stale

vars == <<req, db, readers, writer, poisoned, live, inserted, stale>>

\* ------------------------------------------------------- HashMap<i64, _>
\* (faulty) insert that forgets the other entries
HashMapInsertClobber(m, k, v) == [x \in {k} |-> v]

\* (faulty) insert that keeps the value of a key already present
HashMapInsertKeepOld(m, k, v) == [x \in (DOMAIN m) \cup {k} |-> IF x \in DOMAIN m THEN m[x] ELSE v]

\* (faulty) insert that keys the record by its position
HashMapInsertByLen(m, k, v) ==
  LET n == Cardinality(DOMAIN m) + 1 IN
  [x \in (DOMAIN m) \cup {n} |-> IF x = n THEN v ELSE m[x]]

HashMapInsert(m, k, v) == [x \in (DOMAIN m) \cup {k} |-> IF x = k THEN v ELSE m[x]]

\* (faulty) remove that only looks the key up
HashMapRemovePeek(m, k) ==
  [map |-> m, old |-> IF k \in DOMAIN m THEN Some(m[k]) ELSE None]

\* (faulty) remove that drops the sign of the key
HashMapRemoveAbs(m, k) ==
  LET a == IF k < 0 THEN 0 - k ELSE k IN
  [map |-> [x \in (DOMAIN m) \ {a} |-> m[x]],
   old |-> IF k \in DOMAIN m THEN Some(m[k]) ELSE None]

\* (faulty) remove that tests for the key after it is gone
HashMapRemoveLateCheck(m, k) ==
  [map |-> [x \in (DOMAIN m) \ {k} |-> m[x]], old |-> None]

HashMapRemove(m, k) ==
  [map |-> [x \in (DOMAIN m) \ {k} |-> m[x]],
   old |-> IF k \in DOMAIN m THEN Some(m[k]) ELSE None]

HashMapGet(m, k) == IF k \in DOMAIN m THEN Some(m[k]) ELSE None

\* (faulty) iteration that skips the first entry
HashMapValuesSkipFirst(m) ==
  LET rest == {k \in DOMAIN m : \E j \in DOMAIN m : j < k} IN
  [a \in {m[k] : k \in rest} |-> Cardinality({k \in rest : m[k] = a})]

\* values().cloned().collect::<Vec<_>>(): the order is unspecified, so the
\* vector is kept as the bag of its elements
HashMapValues(m) ==
  [a \in {m[k] : k \in DOMAIN m} |-> Cardinality({k \in DOMAIN m : m[k] = a})]

\* ------------------------------------------------ Path<i64> extraction
\* (faulty) digit value that reads any other character as 0
DigitValLenient(c) ==
  CASE c = "0" -> 0 [] c = "1" -> 1 [] c = "2" -> 2 [] c = "3" -> 3 [] c = "4" -> 4
    [] c = "5" -> 5 [] c = "6" -> 6 [] c = "7" -> 7 [] c = "8" -> 8 [] c = "9" -> 9
    [] OTHER -> 0

DigitVal(c) ==
  CASE c = "0" -> 0 [] c = "1" -> 1 [] c = "2" -> 2 [] c = "3" -> 3 [] c = "4" -> 4
    [] c = "5" -> 5 [] c = "6" -> 6 [] c = "7" -> 7 [] c = "8" -> 8 [] c = "9" -> 9
    [] OTHER -> -1

RECURSIVE ParseDigits(_, _)
\* fold of the digits onto the accumulator; None on a non-digit
ParseDigits(s, acc) ==
  IF s = <<>> THEN Some(acc)
  ELSE IF DigitVal(Head(s)) < 0 THEN None
  ELSE ParseDigits(Tail(s), acc * 10 + DigitVal(Head(s)))

\* i64::from_str: optional sign, then at least one digit
ParseI64(s) ==
  IF s = <<>> THEN None
  ELSE IF Head(s) \in {"+", "-"}
    THEN IF Tail(s) = <<>> THEN None
         ELSE LET p == ParseDigits(Tail(s), 0) IN
              IF p = None THEN None
              ELSE IF Head(s) = "-" THEN Some(0 - p[1]) ELSE p
  ELSE ParseDigits(s, 0)

\* ------------------------------------------------------ advices_generate
\* (faulty) generate that takes whatever entry the object has
GenerateFromBodyAnyKey(b) ==
  IF ~b.json THEN [tag |-> "Err", val |-> NoAdvice]
  ELSE IF DOMAIN b.map = {} THEN [tag |-> "Panic", val |-> NoAdvice]
  ELSE [tag |-> "Ok", val |-> b.map[CHOOSE k \in DOMAIN b.map : TRUE]]

\* .json::<HashMap<String, Advice>>().await? then resp.get("slip").unwrap()
GenerateFromBody(b) ==
  IF ~b.json THEN [tag |-> "Err", val |-> NoAdvice]
  ELSE LET s == HashMapGet(b.map, "slip") IN
       IF s = None THEN [tag |-> "Panic", val |-> NoAdvice]
       ELSE [tag |-> "Ok", val |-> s[1]]

\* what the provider did, as seen from outside the handler
UpstreamOf(b) ==
  IF ~b.json THEN "badjson"
  ELSE IF "slip" \notin DOMAIN b.map THEN "noslip" ELSE "ok"

UpFail == {"neterr", "badjson", "noslip"}

\* ------------------------------------------------------------ middleware
\* the handler is suspended (and can be dropped by the timeout) only here
AwaitPoints == {"get", "json"}

\* (faulty) timeout that can still fire once the handler has returned
TimeoutCanFireLate(p) == p \in AwaitPoints \cup {"respond"}

TimeoutCanFire(p) == p \in AwaitPoints

ErrorKinds == {"Elapsed", "Other"}

\* (faulty) error handler with the two statuses exchanged
handle_errorSwapped(e) == IF e = "Elapsed" THEN 500 ELSE 408

\* the closure given to handle_error
handle_error(e) == IF e = "Elapsed" THEN 408 ELSE 500

\* -------------------------------------------------------------- RwLock
\* (faulty) read lock that a create holds off for the whole of its fetch
CanReadAfterFetches == writer = 0 /\ \A q \in Req : req[q].pc \notin AwaitPoints

\* (faulty) read lock that does not wait for the writer
CanReadIgnoresWriter == TRUE

CanRead == writer = 0

\* (faulty) write lock that does not wait for the readers
CanWriteIgnoresReaders == writer = 0

CanWrite == writer = 0 /\ readers = {}

\* (faulty) write guard bound to a variable that lives until the return
GuardKeptToReturn(r) == r

\* the holder of the write lock after the statement at :77: the guard is a
\* temporary, dropped at the semicolon
GuardAfterStatement(r) == 0

\* (faulty) panic that unwinds through a live write guard
PanickedUnderGuard(r) ==
  /\ poisoned' = TRUE
  /\ writer' = IF writer = r THEN 0 ELSE writer
  /\ readers' = readers \ {r}

\* a panic poisons the lock only when it unwinds through a write guard
Panicked(r) ==
  /\ poisoned' = (poisoned \/ writer = r)
  /\ writer' = IF writer = r THEN 0 ELSE writer
  /\ readers' = readers \ {r}

\* ------------------------------------------------------- request slots
\* the slots whose request has finished
Retired == {q \in Req : req[q].pc \in {"done", "panicked"}}

\* the slots as the next step finds them: finished requests are gone
Swept == [q \in Req |-> IF q \in Retired THEN IdleReq ELSE req[q]]

\* the server gives an arriving request the first free slot
Accepts(r) ==
  /\ req[r].pc \in {"idle", "done", "panicked"}
  /\ \A q \in Req : q < r => req[q].pc \notin {"idle", "done", "panicked"}

\* a step that neither inserts nor removes
KeepHistory ==
  /\ inserted' = inserted \ Retired
  /\ stale' = stale \ Retired
  /\ UNCHANGED live

Lock == <<readers, writer, poisoned>>

TypeOK ==
  /\ DOMAIN db \subseteq Ids
  /\ \A k \in DOMAIN db : db[k] \in Advice
  /\ readers \subseteq Req
  /\ writer \in 0..MaxReq
  /\ poisoned \in BOOLEAN
  /\ live \subseteq Ids
  /\ inserted \subseteq Req /\ stale \subseteq inserted

Init ==
  /\ req = [r \in Req |-> IdleReq]
  /\ db = <<>>
  /\ readers = {}
  /\ writer = 0
  /\ poisoned = FALSE
  /\ live = {}
  /\ inserted = {}
  /\ stale = {}

\* ------------------------------------------------------- GET /advices
IndexArrive(r) ==
  /\ Accepts(r)
  /\ req' = [Swept EXCEPT ![r] = [IdleReq EXCEPT !.kind = "index", !.pc = "read"]]
  /\ KeepHistory
  /\ UNCHANGED <<db, Lock>>

\* let advices = db.read().unwrap();
IndexRead(r) ==
  /\ req[r].pc = "read"
  /\ CanRead
  /\ IF poisoned
       THEN /\ req' = [Swept EXCEPT ![r].pc = "panicked"]
            /\ UNCHANGED Lock
       ELSE /\ req' = [Swept EXCEPT ![r].pc = "collect"]
            /\ readers' = readers \cup {r}
            /\ UNCHANGED <<writer, poisoned>>
  /\ KeepHistory
  /\ UNCHANGED db

\* collect the values, build Json(advices), drop the guard on return
IndexCollect(r) ==
  /\ req[r].pc = "collect"
  /\ req' = [Swept EXCEPT ![r].pc = "done", ![r].status = 200, ![r].body = HashMapValues(db)]
  /\ readers' = readers \ {r}
  /\ KeepHistory
  /\ UNCHANGED <<db, writer, poisoned>>

\* ------------------------------------------------------ POST /advices
CreateArrive(r) ==
  /\ Accepts(r)
  /\ req' = [Swept EXCEPT ![r] = [IdleReq EXCEPT !.kind = "create", !.pc = "get"]]
  /\ KeepHistory
  /\ UNCHANGED <<db, Lock>>

\* reqwest::get(..).await? succeeded: the body is still to be read
FetchGetOk(r) ==
  /\ req[r].pc = "get"
  /\ req' = [Swept EXCEPT ![r].pc = "json"]
  /\ KeepHistory
  /\ UNCHANGED <<db, Lock>>

\* reqwest::get(..).await? failed: Err reaches the unwrap in advices_create
FetchGetErr(r) ==
  /\ req[r].pc = "get"
  /\ req' = [Swept EXCEPT ![r].pc = "panicked", ![r].up = "neterr"]
  /\ Panicked(r)
  /\ KeepHistory
  /\ UNCHANGED db

\* the body arrived and was decoded, and the slip record was found
FetchJsonOk(r, b) ==
  /\ req[r].pc = "json"
  /\ GenerateFromBody(b).tag = "Ok"
  /\ req' = [Swept EXCEPT ![r].pc = "write", ![r].rec = GenerateFromBody(b).val,
                          ![r].up = UpstreamOf(b)]
  /\ KeepHistory
  /\ UNCHANGED <<db, Lock>>

\* the body did not decode (Err, unwrapped at :76) or had no slip (None,
\* unwrapped at :96): either way the task panics
FetchJsonFail(r, b) ==
  /\ req[r].pc = "json"
  /\ GenerateFromBody(b).tag # "Ok"
  /\ req' = [Swept EXCEPT ![r].pc = "panicked", ![r].up = UpstreamOf(b)]
  /\ Panicked(r)
  /\ KeepHistory
  /\ UNCHANGED db

\* db.write().unwrap()
CreateWrite(r) ==
  /\ req[r].pc = "write"
  /\ CanWrite
  /\ IF poisoned
       THEN /\ req' = [Swept EXCEPT ![r].pc = "panicked"]
            /\ UNCHANGED Lock
       ELSE /\ req' = [Swept EXCEPT ![r].pc = "insert"]
            /\ writer' = r
            /\ UNCHANGED <<readers, poisoned>>
  /\ KeepHistory
  /\ UNCHANGED db

\* .insert(advice.id, advice.clone()); the guard is dropped at the semicolon
CreateInsert(r) ==
  /\ req[r].pc = "insert"
  /\ writer = r
  /\ db' = HashMapInsert(db, req[r].rec.id, req[r].rec)
  /\ writer' = GuardAfterStatement(r)
  /\ req' = [Swept EXCEPT ![r].pc = "respond"]
  /\ live' = live \cup {req[r].rec.id}
  /\ inserted' = (inserted \ Retired) \cup {r}
  /\ stale' = ((stale \ Retired) \ {r}) \cup
        {q \in inserted \ (Retired \cup {r}) : req[q].rec.id = req[r].rec.id}
  /\ UNCHANGED <<readers, poisoned>>

\* (StatusCode::CREATED, Json(advice))
CreateRespond(r) ==
  /\ req[r].pc = "respond"
  /\ req' = [Swept EXCEPT ![r].pc = "done", ![r].status = 201]
  /\ KeepHistory
  /\ UNCHANGED <<db, Lock>>

\* the tower timeout elapsed while the handler was suspended: the handler
\* future is dropped and handle_error maps Elapsed
Timeout(r) ==
  /\ TimeoutCanFire(req[r].pc)
  /\ req' = [Swept EXCEPT ![r].pc = "done", ![r].status = handle_error("Elapsed")]
  /\ KeepHistory
  /\ UNCHANGED <<db, Lock>>

\* ------------------------------------------------ DELETE /advices/:id
\* Path(id): Path<i64>: the slot after the extraction; a rejected
\* extraction answers 400 before the body
PathExtract(seg) ==
  LET p == ParseI64(seg) IN
    IF p = None
      THEN [IdleReq EXCEPT !.kind = "delete", !.pc = "done", !.status = 400]
      ELSE [IdleReq EXCEPT !.kind = "delete", !.pc = "dwrite", !.arg = p[1]]

DeleteArrive(r, seg) ==
  /\ Accepts(r)
  /\ req' = [Swept EXCEPT ![r] = PathExtract(seg)]
  /\ KeepHistory
  /\ UNCHANGED <<db, Lock>>

\* db.write().unwrap()
DeleteWrite(r) ==
  /\ req[r].pc = "dwrite"
  /\ CanWrite
  /\ IF poisoned
       THEN /\ req' = [Swept EXCEPT ![r].pc = "panicked"]
            /\ UNCHANGED Lock
       ELSE /\ req' = [Swept EXCEPT ![r].pc = "remove"]
            /\ writer' = r
            /\ UNCHANGED <<readers, poisoned>>
  /\ KeepHistory
  /\ UNCHANGED db

\* .remove(&id).is_some(), guard dropped at the end of the condition, then
\* the status is chosen
DeleteRemove(r) ==
  /\ req[r].pc = "remove"
  /\ writer = r
  /\ LET res == HashMapRemove(db, req[r].arg) IN
       /\ db' = res.map
       /\ req' = [Swept EXCEPT ![r].pc = "done",
                               ![r].status = IF res.old # None THEN 204 ELSE 404]
       /\ live' = IF res.old # None THEN live \ {req[r].arg} ELSE live
       /\ stale' = IF res.old # None
                     THEN (stale \ Retired) \cup
                          {q \in inserted \ Retired : req[q].rec.id = req[r].arg}
                     ELSE stale \ Retired
  /\ inserted' = inserted \ Retired
  /\ writer' = 0
  /\ UNCHANGED <<readers, poisoned>>

Next ==
  \E r \in Req :
    \/ IndexArrive(r)
    \/ IndexRead(r)
    \/ IndexCollect(r)
    \/ CreateArrive(r)
    \/ FetchGetOk(r)
    \/ FetchGetErr(r)
    \/ \E b \in Bodies : FetchJsonOk(r, b)
    \/ \E b \in Bodies : FetchJsonFail(r, b)
    \/ CreateWrite(r)
    \/ CreateInsert(r)
    \/ CreateRespond(r)
    \/ Timeout(r)
    \/ \E seg \in Segments : DeleteArrive(r, seg)
    \/ DeleteWrite(r)
    \/ DeleteRemove(r)

Spec == Init /\ [][Next]_vars

\* the steps of the handlers' own code: taking the lock and what follows it
HandlerStep(r) ==
  \/ IndexRead(r)
  \/ IndexCollect(r)
  \/ CreateWrite(r)
  \/ CreateInsert(r)
  \/ CreateRespond(r)
  \/ DeleteWrite(r)
  \/ DeleteRemove(r)

\* The server does not stop while some handler has code to run: the runtime
\* polls the ready tasks and a thread waiting for a free lock gets it.
\* Nothing is assumed of arrivals, of the advice provider (a fetch may stay
\* pending for ever) or of the timer.
Fairness == WF_vars(\E r \in Req : HandlerStep(r))

SpecFair == Spec /\ Fairness

\* ============================================================ properties
BagIds(b) == {a.id : a \in BagToSet(b)}

Free == {"idle", "done", "panicked"}

\* the step is a step of the request in slot r
Acts(r) == req[r].pc \notin Free /\ req'[r] # req[r]

\* the step is the arrival of a request of kind k in slot r
Arrives(r, k) == req[r].pc \in Free /\ req'[r].kind = k

\* C1: the ids a list request returns are exactly the ids inserted by a
\* successful create and not removed by a later successful delete, one
\* record per id; the same set is the key set of the Store at every moment.
C1_ListIsLiveSet ==
  /\ DOMAIN db = live
  /\ \A r \in Req :
       (req[r].kind = "index" /\ req[r].pc = "done") =>
         /\ req[r].status = 200
         /\ BagIds(req[r].body) = live
         /\ BagCardinality(req[r].body) = Cardinality(live)

C1_Witness ==
  \E r, q \in Req :
    /\ req[r].kind = "index" /\ req[r].pc = "done" /\ BagIds(req[r].body) = {1}
    /\ q \in stale /\ req[q].rec.id = 2

\* C2: a create whose upstream call fails (network error, undecodable body,
\* no "slip" entry) ends at the failure without having touched the Store:
\* the failing step leaves db as it is, and the request has not inserted,
\* holds no record and no lock, and takes no further step.
C2_FailedCreateInsertsNothing ==
  /\ [](\A r \in Req :
          req[r].up \in UpFail =>
            /\ req[r].pc = "panicked"
            /\ req[r].rec = NoAdvice
            /\ r \notin inserted /\ writer # r /\ r \notin readers)
  /\ [][\A r \in Req :
          (req'[r].up \in UpFail /\ req[r].up \notin UpFail) =>
            /\ db' = db
            /\ HashMapValues(db') = HashMapValues(db)
            /\ r \notin inserted]_vars

C2_Witness ==
  \E r \in Req :
    /\ req[r].up = "noslip" /\ req[r].pc = "panicked"
    /\ DOMAIN db = {1}

\* C3 (as claimed): a create whose upstream call fails is answered with a
\* 5xx status and its handler never panics.
C3_FailedCreateAnswers5xx ==
  \A r \in Req :
    req[r].up \in UpFail =>
      /\ req[r].pc # "panicked"
      /\ req[r].pc = "done" => req[r].status \in 500..599

\* C4: a delete of k answers 204 exactly when k was in the Store when it
\* held the write lock, and then only k is gone; otherwise it answers 404 and
\* the Store is as before.  Nothing changes the Store between the moment the
\* delete takes the lock and its removal.
C4_DeleteStatus ==
  [][/\ \A r \in Req :
          (req[r].pc = "remove" /\ Acts(r)) =>
            LET k == req[r].arg IN
              IF k \in DOMAIN db
                THEN /\ req'[r].status = 204
                     /\ DOMAIN db' = (DOMAIN db) \ {k}
                     /\ \A j \in DOMAIN db' : db'[j] = db[j]
                ELSE /\ req'[r].status = 404
                     /\ db' = db
     /\ \A r \in Req :
          (req[r].pc = "remove" /\ ~Acts(r)) => db' = db]_vars

C4_Witness ==
  \E r \in Req :
    /\ req[r].kind = "delete" /\ req[r].pc = "done" /\ req[r].status = 204
    /\ req[r].arg = 1 /\ DOMAIN db = {2}

\* C5: for every set of creates with pairwise distinct ids that have
\* inserted their record, none of them undone by a later delete, the Store
\* holds all their ids, however the creates interleaved.
C5_NoLostInsert ==
  \A S \in SUBSET (inserted \ stale) :
    (\A r, q \in S : r # q => req[r].rec.id # req[q].rec.id) =>
      /\ {req[r].rec.id : r \in S} \subseteq DOMAIN db
      /\ Cardinality(DOMAIN db) >= Cardinality(S)

C5_Witness ==
  \E r, q \in Req :
    /\ r # q
    /\ req[r].pc = "respond" /\ req[q].pc = "respond"
    /\ req[r].rec.id # req[q].rec.id
    /\ {req[r].rec.id, req[q].rec.id} \subseteq DOMAIN db

\* C6: a create whose fetch succeeds takes exactly the provider's "slip"
\* record, stores it under its id, and answers 201 with it; until another
\* create or delete of that id, the Store holds that record and every list
\* contains it.
C6_CreateStoresRecord ==
  /\ [](\A r \in Req :
          /\ (req[r].kind = "create" /\ req[r].status = 201) =>
               (r \in inserted /\ req[r].rec \in Advice /\ req[r].up = "ok")
          /\ r \in inserted \ stale =>
               HashMapGet(db, req[r].rec.id) = Some(req[r].rec))
  /\ [][/\ \A r \in Req :
             (req[r].pc = "json" /\ req'[r].pc = "write") =>
               \A b \in Bodies :
                 FetchJsonOk(r, b) =>
                   ("slip" \in DOMAIN b.map /\ req'[r].rec = b.map["slip"])
        /\ \A r \in Req :
             (req[r].pc = "respond" /\ Acts(r)) =>
               (req'[r].status = 201 /\ req'[r].rec = req[r].rec)
        /\ \A l \in Req :
             (req[l].pc = "collect" /\ Acts(l)) =>
               \A r \in inserted \ stale : BagIn(req[r].rec, req'[l].body)]_vars

C6_Witness ==
  \E r \in Req :
    /\ req[r].kind = "create" /\ req[r].status = 201 /\ r \notin stale
    /\ req[r].rec = [id |-> 1, advice |-> "b"]
    /\ DOMAIN db = {1, 2}

\* C7: no step of a delete whose id is not in the Store changes the Store
\* or what a list would return, and such a delete answers 404.
C7_DeleteAbsentIsNoop ==
  [][\A r \in Req :
       /\ (req[r].kind = "delete" /\ Acts(r) /\ req[r].arg \notin DOMAIN db) =>
            /\ db' = db
            /\ HashMapValues(db') = HashMapValues(db)
            /\ req[r].pc = "remove" => req'[r].status = 404
       /\ Arrives(r, "delete") => db' = db]_vars

C7_Witness ==
  \E r \in Req :
    /\ req[r].kind = "delete" /\ req[r].pc = "done" /\ req[r].status = 404
    /\ req[r].arg = -1 /\ DOMAIN db = {1}

\* the path segments that are the decimal text of an integer
IsDigit(c) == c \in {"0", "1", "2", "3", "4", "5", "6", "7", "8", "9"}

IsIntegerText(s) ==
  /\ Len(s) >= 1
  /\ LET d == IF s[1] \in {"+", "-"} THEN Tail(s) ELSE s IN
       Len(d) >= 1 /\ \A i \in 1..Len(d) : IsDigit(d[i])

IntegerSegments == {seg \in Segments : IsIntegerText(seg)}

\* what the extraction makes of each segment
Extracted == [seg \in Segments |-> PathExtract(seg)]

\* C8: a delete whose path segment is not an integer is answered 400 in the
\* step of its arrival, which leaves the Store and the lock alone; it never
\* waits for or holds the lock; an integer segment is never answered 400.
C8_BadIdIs400 ==
  /\ [](\A r \in Req :
          req[r].status = 400 =>
            (req[r].kind = "delete" /\ req[r].pc = "done" /\ r \notin readers /\ writer # r))
  /\ [][\A r \in Req :
          Arrives(r, "delete") =>
            /\ \A seg \in IntegerSegments :
                 req'[r] = Extracted[seg] => (req'[r].status # 400 /\ req'[r].pc = "dwrite")
            /\ \A seg \in Segments \ IntegerSegments :
                 req'[r] = Extracted[seg] =>
                   /\ req'[r].status = 400 /\ req'[r].pc = "done"
                   /\ UNCHANGED <<db, readers, writer>>]_vars

C8_Witness ==
  \E r \in Req :
    /\ req[r].kind = "delete" /\ req[r].status = 400 /\ req[r].pc = "done"
    /\ DOMAIN db = {1, 2}

\* C9: a create answered 408 has inserted nothing (its fetch never
\* completed) and the step that times it out leaves the Store alone; a
\* create answered 201 has completed its fetch and inserted; an answered
\* create is one or the other.
C9_TimedOutCreateInsertsNothing ==
  /\ [](\A r \in Req :
          /\ (req[r].kind = "create" /\ req[r].status = 408) =>
               (r \notin inserted /\ req[r].rec = NoAdvice /\ req[r].up # "ok")
          /\ (req[r].kind = "create" /\ req[r].status = 201) =>
               (r \in inserted /\ req[r].up = "ok")
          /\ (req[r].kind = "create" /\ req[r].pc = "done") =>
               req[r].status \in {201, 408})
  /\ [][\A r \in Req :
          (req'[r].status = 408 /\ req[r].status # 408) => db' = db]_vars

C9_Witness ==
  \E r, q \in Req :
    /\ req[r].kind = "create" /\ req[r].status = 408
    /\ req[q].pc = "respond"
    /\ DOMAIN db = {req[q].rec.id}

\* C10: a handler dropped by the timeout is answered 408, not 500, and is
\* finished: it holds no lock, and the step touches neither Store nor lock;
\* handle_error answers 500 for every other error.
C10_Timeout408 ==
  /\ [](/\ \A r \in Req :
             req[r].status = 408 => (req[r].pc = "done" /\ r \notin readers /\ writer # r)
        /\ \A r \in Req : req[r].status # 500
        /\ \A e \in ErrorKinds : handle_error(e) = (IF e = "Elapsed" THEN 408 ELSE 500))
  /\ [][\A r \in Req :
          (req[r].pc \in AwaitPoints /\ req'[r].pc = "done") =>
            (req'[r].status = 408 /\ UNCHANGED <<db, readers, writer, poisoned>>)]_vars

C10_Witness ==
  \E r, q \in Req :
    /\ req[r].status = 408 /\ req[r].pc = "done"
    /\ req[q].pc = "json"

\* C11: every Store entry is keyed by the id of its record, so a list holds
\* at most one record per id; an insert under an id already present puts the
\* new record in place of the old one and leaves the other entries and the
\* number of entries as they were.
C11_OneRecordPerId ==
  /\ [](/\ \A k \in DOMAIN db : db[k].id = k
        /\ \A l \in Req :
             (req[l].kind = "index" /\ req[l].pc = "done") =>
               \A a, b \in BagToSet(req[l].body) :
                 (a.id = b.id) => (a = b /\ CopiesIn(a, req[l].body) = 1))
  /\ [][\A r \in Req :
          (req[r].pc = "insert" /\ Acts(r) /\ req[r].rec.id \in DOMAIN db) =>
            /\ db'[req[r].rec.id] = req[r].rec
            /\ DOMAIN db' = DOMAIN db
            /\ Cardinality(DOMAIN db') = Cardinality(DOMAIN db)
            /\ \A j \in (DOMAIN db) \ {req[r].rec.id} : db'[j] = db[j]]_vars

C11_Witness ==
  \E r, q \in Req :
    /\ req[r].pc = "respond" /\ req[r].rec = [id |-> 1, advice |-> "b"]
    /\ q \in stale /\ req[q].rec = [id |-> 1, advice |-> "a"]
    /\ db = (1 :> [id |-> 1, advice |-> "b"])

\* C12: a delete of an id whose last successful operation was a create
\* answers 204 and takes the id away; a delete of an id whose last
\* successful operation was a delete (or that was never created) answers 404;
\* a create that has inserted and was not undone has its id among the former.
C12_DeleteThenDeleteAgain ==
  /\ [](\A r \in inserted \ stale : req[r].rec.id \in live)
  /\ [][\A r \in Req :
          (req[r].pc = "remove" /\ Acts(r)) =>
            IF req[r].arg \in live
              THEN /\ req'[r].status = 204
                   /\ live' = live \ {req[r].arg}
                   /\ req[r].arg \notin DOMAIN db'
              ELSE /\ req'[r].status = 404
                   /\ live' = live]_vars

C12_Witness ==
  \E r, q \in Req :
    /\ req[r].kind = "delete" /\ req[r].pc = "done" /\ req[r].status = 404
    /\ req[r].arg = 1
    /\ q \in stale /\ req[q].rec.id = 1 /\ 1 \notin DOMAIN db

\* the handlers that hold a guard, by their position in the code
WriteHolders == {r \in Req : req[r].pc \in {"insert", "remove"}}

ReadHolders == {r \in Req : req[r].pc = "collect"}

\* C13: a create suspended in the fetch holds neither lock; a create holds
\* the write lock only between the end of a successful fetch and its
\* insert, and no longer when the response is produced.
C13_NoLockAcrossFetch ==
  \A r \in Req :
    /\ req[r].pc \in AwaitPoints => (writer # r /\ r \notin readers)
    /\ (req[r].kind = "create" /\ writer = r) =>
         (req[r].pc = "insert" /\ req[r].up = "ok" /\ req[r].rec \in Advice)
    /\ (req[r].kind = "create" /\ req[r].pc \in {"respond", "done", "panicked"}) =>
         (writer # r /\ r \notin readers)

C13_Witness ==
  \E r, q \in Req :
    /\ req[r].pc = "get"
    /\ req[q].kind = "create" /\ writer = q

\* some request other than r is at the lock: waiting for it or holding it
Contended(r) ==
  \E q \in Req \ {r} :
    req[q].pc \in {"read", "collect", "write", "insert", "dwrite", "remove"}

\* C14: a list or a delete that waits for the lock while the other requests
\* are suspended in the fetch finds the lock free; and with no fetch ever
\* ending, a list or a delete that waits for the lock gets to its normal
\* response unless another request comes to the lock first.
C14_FetchBlocksNobody ==
  /\ [](\A r \in Req :
          ~Contended(r) =>
            /\ req[r].pc = "read" => (CanRead /\ ENABLED IndexRead(r))
            /\ req[r].pc = "dwrite" => (CanWrite /\ ENABLED DeleteWrite(r)))
  /\ \A r \in Req :
       /\ (req[r].pc = "read") ~>
            \/ req[r].kind = "index" /\ req[r].pc = "done" /\ req[r].status = 200
            \/ Contended(r)
       /\ (req[r].pc = "dwrite") ~>
            \/ req[r].kind = "delete" /\ req[r].pc = "done" /\ req[r].status \in {204, 404}
            \/ Contended(r)

C14_Witness ==
  \E r, q \in Req :
    /\ req[q].kind = "create" /\ req[q].pc \in AwaitPoints
    /\ req[r].kind \in {"index", "delete"} /\ req[r].pc = "done"
    /\ req[r].status \in {200, 204, 404}

\* C15: the body of a list is the content of the Store, record for record,
\* as it is from the moment the handler has the read lock to its response:
\* nothing changes the Store in between, and no step of a list changes it.
C15_ListIsSnapshot ==
  [][\A l \in Req :
       /\ req[l].pc = "collect" => db' = db
       /\ (req[l].pc = "collect" /\ Acts(l)) =>
            /\ \A a \in Advice :
                 CopiesIn(a, req'[l].body) = Cardinality({k \in DOMAIN db : db[k] = a})
            /\ BagToSet(req'[l].body) \subseteq Advice
       /\ (req[l].kind = "index" /\ Acts(l)) => db' = db
       /\ Arrives(l, "index") => db' = db]_vars

C15_Witness ==
  \E l, q \in Req :
    /\ req[l].kind = "index" /\ req[l].pc = "done"
    /\ BagCardinality(req[l].body) = 2
    /\ req[q].pc = "write"

\* C16: at most one handler holds the write lock, and then none holds the
\* read lock; the lock variables say who holds what.
C16_WriterExcludesAll ==
  /\ Cardinality(WriteHolders) <= 1
  /\ WriteHolders # {} => ReadHolders = {}
  /\ ReadHolders = readers
  /\ WriteHolders = (IF writer = 0 THEN {} ELSE {writer})

C16_Witness == Cardinality(ReadHolders) >= 2

\* C17: the lock is never poisoned: a handler panics only on a failed
\* upstream call, holding no lock, and taking the lock never panics, also
\* right after a failed create.
C17_LockNeverPoisoned ==
  /\ [](/\ ~poisoned
        /\ \A r \in Req :
             req[r].pc = "panicked" =>
               (req[r].kind = "create" /\ req[r].up \in UpFail /\ writer # r /\ r \notin readers))
  /\ [][\A r \in Req :
          /\ (req[r].pc \in {"read", "write", "dwrite"} /\ Acts(r)) =>
               req'[r].pc \in {"collect", "insert", "remove"}
          /\ (req'[r].pc = "panicked" /\ req[r].pc # "panicked") =>
               (req[r].pc \in AwaitPoints /\ writer # r /\ r \notin readers
                /\ UNCHANGED <<db, readers, writer, poisoned>>)]_vars

C17_Witness ==
  \E r, q \in Req :
    /\ req[r].pc = "panicked" /\ req[r].up \in UpFail
    /\ req[q].pc = "dwrite" /\ CanWrite /\ ~poisoned

====
